---- MODULE Spec2Model ----
(***************************************************************************)
(* Model of form_8k_checker.py: the script that walks the SEC 'latest      *)
(* filings' listing page by page, extracts the Form 8-K rows that carry    *)
(* the tracked item, merges them with the entries already stored in the    *)
(* GitHub file and writes the file back.                                   *)
(*                                                                         *)
(* Text is modelled as a sequence of symbols.  A symbol stands for one     *)
(* character ("|", "\n", "\"") or for a literal chunk of text that holds   *)
(* no field separator, quote or line break.  Symbols are ordered as        *)
(* Python orders the text they stand for (by code point).                  *)
(***************************************************************************)
EXTENDS Integers, Sequences, FiniteSets, TLC

VARIABLES
    listing,                \* the SEC listing, newest filing first (environment)
    doc,                    \* the GitHub file: [exists, text, rev] (environment)
    pc,                     \* where main() is
    runs,                   \* number of runs of main() started so far
    index,                  \* get_8ks: start offset of the next page request
    page,                   \* get_8ks: number of page requests issued in this run
    relevant_filings,       \* get_8ks: the text accumulated so far
    new_entries_list,       \* main: the new entries, one line each
    existing_entries_list,  \* main: the stored entries returned by the read
    current_sha,            \* main: the token returned by the read
    all_entries_string,     \* main: the text to be saved
    page_failures,          \* history: page requests of this run that timed out or raised
    grew,                   \* history: the listing changed while this run was paginating
    read_result,            \* history: how the GET of the file ended in this run
    doc_at_read,            \* history: the GitHub file when the GET was made
    put_log,                \* history: the payload of the PUT issued in this run
    gets,                   \* history: GETs of the file issued in this run
    puts,                   \* history: PUTs of the file issued in this run
    requests,               \* history: the start offsets of the page requests of this run
    fetched,                \* history: the pages of this run answered with 200 and processed
    m_pc,                   \* merge harness: stage
    m_new,                  \* merge harness: new_entries argument
    m_old,                  \* merge harness: old_entries argument
    m_out,                  \* merge harness: get_final_string(m_new, m_old)
    m_again,                \* merge harness: the merge repeated on the result read back
    rt_pc,                  \* round-trip harness: stage
    rt_records,             \* round-trip harness: the filings rendered
    rt_text,                \* round-trip harness: the text of the file written
    rt_back                 \* round-trip harness: the entries read back from it

vars == <<listing, doc, pc, runs, index, page, relevant_filings, new_entries_list,
          existing_entries_list, current_sha, all_entries_string, page_failures,
          grew, read_result, doc_at_read, put_log, gets, puts, requests, fetched,
          m_pc, m_new, m_old, m_out, m_again, rt_pc, rt_records, rt_text, rt_back>>

pipeline_vars == <<listing, doc, pc, runs, index, page, relevant_filings,
                   new_entries_list, existing_entries_list, current_sha,
                   all_entries_string, page_failures, grew, read_result, doc_at_read,
                   put_log, gets, puts, requests, fetched>>

merge_vars == <<m_pc, m_new, m_old, m_out, m_again>>

roundtrip_vars == <<rt_pc, rt_records, rt_text, rt_back>>

harness_vars == <<merge_vars, roundtrip_vars>>

-----------------------------------------------------------------------------
(* Bounds of the model *)

\* Page size of the listing requests.  The script sets 100; the model walks
\* the same loop over shorter pages.
FILINGS_PER_PAGE == 2

\* Filings the listing ever shows.
MaxFilings == 4

\* Distinct filing timestamps of the listing.
MaxStamp == 2

\* Runs of main().
MaxRuns == 2

\* Page requests one run may issue (the retry loop of get_8ks is unbounded).
MaxRequests == 3

\* Merge harness: longest entry list, and distinct timestamps.
MaxLen == 3
MaxT == 3

-----------------------------------------------------------------------------
(* Text *)

PIPE == "|"
NL == "\n"
CR == "\r"
QUOTE == "\""
SPACE == " "

\* Text chunks of the listing and of the stored file.
CompanyText == "ACME CORP"
CikFiler == "(0001234567) (Filer)"
LinkOpen == "[link](https://www.sec.gov"
LinkClose == ")"
HrefText == <<"/Archives/1.htm", "/Archives/2.htm", "/Archives/3.htm",
              "/Archives/4.htm", "/Archives/5.htm", "/Archives/6.htm">>
\* The text of the timestamp cell (date and time around a <br>), and its
\* canonical rendering.
RawStamp == <<"2024-01-0109:00:00", "2024-01-0209:00:00", "2024-01-0309:00:00",
              "2024-01-0409:00:00", "2024-01-0509:00:00">>
CanonStamp == <<"2024-01-01 09:00:00", "2024-01-02 09:00:00", "2024-01-03 09:00:00",
                "2024-01-04 09:00:00", "2024-01-05 09:00:00">>
BadStamp == "n/a"
ShaText == <<"3a1f", "3a2f", "3a3f", "3a4f", "3a5f", "3a6f">>

\* Every symbol, in increasing order of the text it stands for.
Alphabet ==
    <<NL, CR, SPACE, QUOTE, "# List of Form 8-Ks with item 1.05",
      CikFiler, LinkClose, "---">>
    \o HrefText \o CanonStamp \o ShaText
    \o <<CompanyText, "Company", "Last checked 2024-01-06 00:00:00", "Link",
         "Timestamp", LinkOpen, PIPE>>

Ord(c) == CHOOSE i \in DOMAIN Alphabet : Alphabet[i] = c

\* Python's < on str.
RECURSIVE StrLess(_, _)
StrLess(a, b) ==
    IF b = <<>> THEN FALSE
    ELSE IF a = <<>> THEN TRUE
    ELSE IF a[1] # b[1] THEN Ord(a[1]) < Ord(b[1])
    ELSE StrLess(Tail(a), Tail(b))

\* Variant: >= where the script has >.
StrGreaterOrEqual(a, b) == ~StrLess(a, b)

StrGreater(a, b) == StrLess(b, a)

HasSym(s, c) == \E i \in 1..Len(s) : s[i] = c

FirstAt(s, c) == CHOOSE i \in 1..Len(s) : s[i] = c /\ \A j \in 1..(i - 1) : s[j] # c

\* str.split(sep)
RECURSIVE split(_, _)
split(s, sep) ==
    IF ~HasSym(s, sep) THEN <<s>>
    ELSE LET i == FirstAt(s, sep)
         IN  <<SubSeq(s, 1, i - 1)>> \o split(SubSeq(s, i + 1, Len(s)), sep)

\* str.splitlines()
RECURSIVE splitlines(_)
splitlines(s) ==
    IF s = <<>> THEN <<>>
    ELSE IF ~HasSym(s, NL) THEN <<s>>
    ELSE LET i == FirstAt(s, NL)
         IN  <<SubSeq(s, 1, i - 1)>> \o splitlines(SubSeq(s, i + 1, Len(s)))

\* sep.join(lines)
RECURSIVE join(_, _)
join(sep, lines) ==
    IF lines = <<>> THEN <<>>
    ELSE IF Len(lines) = 1 THEN lines[1]
    ELSE lines[1] \o <<sep>> \o join(sep, Tail(lines))

\* str.count(c)
count(s, c) == Cardinality({i \in 1..Len(s) : s[i] = c})

\* str.replace(c, '')
remove(s, c) == SelectSeq(s, LAMBDA x : x # c)

\* str.strip(c)
RECURSIVE strip(_, _)
strip(s, c) ==
    IF s # <<>> /\ s[1] = c THEN strip(Tail(s), c)
    ELSE IF s # <<>> /\ s[Len(s)] = c THEN strip(SubSeq(s, 1, Len(s) - 1), c)
    ELSE s

\* lst[n:]
drop(lst, n) == SubSeq(lst, n + 1, Len(lst))

\* Python's None and a value that is not None.
None == [some |-> FALSE, v |-> <<>>]
Some(x) == [some |-> TRUE, v |-> x]
\* Truth value of an optional list or string: None and the empty one are false.
Truthy(o) == o.some /\ o.v # <<>>

-----------------------------------------------------------------------------
(* Constants of the script *)

HEADING ==
    <<"# List of Form 8-Ks with item 1.05", NL,
      "Last checked 2024-01-06 00:00:00", NL,
      NL,
      PIPE, "Company", PIPE, "Timestamp", PIPE, "Link", PIPE, NL,
      PIPE, "---", PIPE, "---", PIPE, "---", PIPE, NL>>

\* The tracked item, and the marker of a Form 8-K row.
ITEM == "1.05"
CurrentReport == "Current report"

-----------------------------------------------------------------------------
(* The SEC listing (environment) *)

\* A filing of the listing: its serial number, its timestamp (an index into
\* RawStamp) and whether its row names the tracked item.
Filings == [id : 1..MaxFilings, ts : 1..MaxStamp, item : BOOLEAN]

\* A <tr> of a page: the text of its first <a>, the phrases its text
\* contains, the text of its nowrap <td> with a <br>, the href of its
\* '[html]' link.  An element the row does not have is None.
HeaderRow == [anchor |-> None, text |-> {}, stamp |-> None, href |-> None]

NameRow(f) ==
    [anchor |-> Some(<<CompanyText, SPACE, CikFiler>>), text |-> {},
     stamp |-> None, href |-> None]

DataRow(f, broken) ==
    [anchor |-> Some(<<"[html]">>),
     text |-> {CurrentReport} \cup (IF f.item THEN {ITEM} ELSE {}),
     stamp |-> Some(<<IF broken THEN BadStamp ELSE RawStamp[f.ts]>>),
     href |-> Some(<<HrefText[f.id]>>)]

RECURSIVE FilingRows(_, _)
FilingRows(fs, broken) ==
    IF fs = <<>> THEN <<>>
    ELSE <<NameRow(Head(fs)), DataRow(Head(fs), broken)>> \o FilingRows(Tail(fs), broken)

Min(a, b) == IF a < b THEN a ELSE b

\* The page the listing serves for start=<start>&count=<FILINGS_PER_PAGE>:
\* its rows, and whether it carries the 'Next <count>' button.  With
\* `broken` the timestamp cells of the page do not parse.
ServedPage(lst, start, broken) ==
    [rows |-> <<HeaderRow>> \o
              FilingRows(SubSeq(lst, start + 1, Min(start + FILINGS_PER_PAGE, Len(lst))),
                         broken),
     next |-> Len(lst) > start + FILINGS_PER_PAGE]

\* Number of pages of a listing: 'Next' is on pages 1..N-1 and not on page N.
PagesOf(lst) ==
    IF Len(lst) = 0 THEN 1
    ELSE (Len(lst) + FILINGS_PER_PAGE - 1) \div FILINGS_PER_PAGE

-----------------------------------------------------------------------------
(* get_filing_info *)

\* The outcome of a call: the value returned, or an exception raised.
Returned(x) == [ok |-> TRUE, v |-> x]
Raised == [ok |-> FALSE, v |-> <<>>]

\* str.lstrip(c)
RECURSIVE lstrip(_, _)
lstrip(s, c) == IF s # <<>> /\ s[1] = c THEN lstrip(Tail(s), c) ELSE s

\* re.sub(r'\([^)]*\) \(Filer\)\s*', '', company): the annotation and the
\* white space after it are removed.
RECURSIVE sub_filer(_)
sub_filer(s) ==
    IF s = <<>> THEN <<>>
    ELSE IF Head(s) = CikFiler THEN sub_filer(lstrip(Tail(s), SPACE))
    ELSE <<Head(s)>> \o sub_filer(Tail(s))

\* datetime.strptime(text, '%Y-%m-%d%H:%M:%S').strftime("%Y-%m-%d %H:%M:%S")
CanParse(text) == \E k \in DOMAIN RawStamp : text = <<RawStamp[k]>>
Reformat(text) == <<CanonStamp[CHOOSE k \in DOMAIN RawStamp : text = <<RawStamp[k]>>]>>

\* get_filing_info(element), element = (prev_tr, current_tr): the line
\* "|company|timestamp|[link](url)|\n", or an exception when an element is
\* missing or the timestamp does not parse.
get_filing_info(element) ==
    LET prev == element[1]
        cur == element[2]
    IN  IF ~prev.anchor.some THEN Raised
        ELSE IF ~cur.stamp.some THEN Raised
        ELSE IF ~CanParse(cur.stamp.v) THEN Raised
        ELSE IF ~cur.href.some THEN Raised
        ELSE LET company == strip(sub_filer(prev.anchor.v), SPACE)
                 date_time == Reformat(cur.stamp.v)
                 full_url == <<LinkOpen>> \o cur.href.v \o <<LinkClose>>
             IN  Returned(<<PIPE>> \o company \o <<PIPE>> \o date_time \o <<PIPE>>
                          \o full_url \o <<PIPE, NL>>)

-----------------------------------------------------------------------------
(* get_8ks: one page *)

\* Variant: the rows are paired two by two instead of each with the next.
RECURSIVE pairs_with_item_disjoint(_)
pairs_with_item_disjoint(tr_elements) ==
    IF Len(tr_elements) < 2 THEN <<>>
    ELSE LET prev_tr == tr_elements[1]
             current_tr == tr_elements[2]
             rest == pairs_with_item_disjoint(Tail(Tail(tr_elements)))
         IN  IF CurrentReport \in current_tr.text /\ ITEM \in current_tr.text
             THEN <<<<prev_tr, current_tr>>>> \o rest
             ELSE rest

\* tr_elements_with_item: the adjacent pairs whose later row holds the marker
\* and the item, in document order.
RECURSIVE pairs_with_item(_)
pairs_with_item(tr_elements) ==
    IF Len(tr_elements) < 2 THEN <<>>
    ELSE LET prev_tr == tr_elements[1]
             current_tr == tr_elements[2]
             rest == pairs_with_item(Tail(tr_elements))
         IN  IF CurrentReport \in current_tr.text /\ ITEM \in current_tr.text
             THEN <<<<prev_tr, current_tr>>>> \o rest
             ELSE rest

\* Variant: each line is put before the text instead of after it.
RECURSIVE append_filings_prepend(_, _)
append_filings_prepend(text, elements) ==
    IF elements = <<>> THEN Returned(text)
    ELSE LET info == get_filing_info(Head(elements))
         IN  IF ~info.ok THEN Raised
             ELSE append_filings_prepend(info.v \o text, Tail(elements))

\* The loop `relevant_filings += get_filing_info(tr_element)`: the text with
\* the lines of the pairs appended, or the exception of the first pair that
\* raises.
RECURSIVE append_filings(_, _)
append_filings(text, elements) ==
    IF elements = <<>> THEN Returned(text)
    ELSE LET info == get_filing_info(Head(elements))
         IN  IF ~info.ok THEN Raised
             ELSE append_filings(text \o info.v, Tail(elements))

-----------------------------------------------------------------------------
(* The GitHub file (environment) *)

\* The file before it is created.
NoDoc == [exists |-> FALSE, text |-> <<>>, rev |-> 0]

\* The ETag header of a 200 response: the quoted sha of the stored revision.
ETagOf(d) == <<QUOTE, ShaText[d.rev], QUOTE>>

\* The response to the GET of the file: 200 with the raw text and the ETag
\* when the file exists, 404 when it does not.
GetResponse(d) ==
    IF d.exists
    THEN [raised |-> FALSE, status_code |-> 200, text |-> d.text, etag |-> Some(ETagOf(d))]
    ELSE [raised |-> FALSE, status_code |-> 404, text |-> <<>>, etag |-> None]

\* A GET answered with a server error, and a GET that raises RequestException.
GetServerError == [raised |-> FALSE, status_code |-> 500, text |-> <<>>, etag |-> None]
GetRaises == [raised |-> TRUE, status_code |-> 0, text |-> <<>>, etag |-> None]

b64encode(text) == [base64 |-> text]
b64decode(content) == content.base64

\* The contents API takes a PUT without sha only to create the file, and a
\* PUT with a sha only when it is the sha of the stored revision.
StoreAccepts(d, payload) ==
    IF payload.sha.some
    THEN d.exists /\ payload.sha.v = <<ShaText[d.rev]>>
    ELSE ~d.exists

StoreAfterPut(d, payload) ==
    [exists |-> TRUE, text |-> b64decode(payload.content), rev |-> d.rev + 1]

-----------------------------------------------------------------------------
(* get_exisiting_entries, get_final_string, update_github_file *)

\* get_exisiting_entries(): the pair (bottom_half, current_sha) for the
\* response of the GET.
get_exisiting_entries(response) ==
    IF response.raised THEN <<None, None>>
    ELSE IF response.status_code = 200
    THEN LET current_content == remove(response.text, CR)
             current_content_as_strings == splitlines(current_content)
             bottom_half == drop(current_content_as_strings, count(HEADING, NL))
         IN  <<Some(bottom_half), response.etag>>
    ELSE <<None, None>>

\* entry.split('|')[2]
stamp_field(entry) == split(entry, PIPE)[3]

\* Variant: the loop skips an entry that is not more recent instead of
\* stopping at it.
RECURSIVE newer_entries_no_break(_, _)
newer_entries_no_break(new_entries, cutoff_timestamp) ==
    IF new_entries = <<>> THEN <<>>
    ELSE IF StrGreater(stamp_field(Head(new_entries)), cutoff_timestamp)
    THEN <<Head(new_entries)>>
         \o newer_entries_no_break(Tail(new_entries), cutoff_timestamp)
    ELSE newer_entries_no_break(Tail(new_entries), cutoff_timestamp)

\* The for loop of get_final_string: the entries of new_entries before the
\* first one that is not more recent than the cutoff.
RECURSIVE newer_entries(_, _)
newer_entries(new_entries, cutoff_timestamp) ==
    IF new_entries = <<>> THEN <<>>
    ELSE IF StrGreater(stamp_field(Head(new_entries)), cutoff_timestamp)
    THEN <<Head(new_entries)>> \o newer_entries(Tail(new_entries), cutoff_timestamp)
    ELSE <<>>

\* Variant: the old entries are added from the second one on.
final_list_skip_first_old(new_entries, old_entries) ==
    IF Truthy(old_entries)
    THEN newer_entries(new_entries, stamp_field(old_entries.v[1])) \o Tail(old_entries.v)
    ELSE new_entries

\* Variant: the old entries are put before the new ones.
final_list_old_first(new_entries, old_entries) ==
    IF Truthy(old_entries)
    THEN old_entries.v \o newer_entries(new_entries, stamp_field(old_entries.v[1]))
    ELSE new_entries

final_list(new_entries, old_entries) ==
    IF Truthy(old_entries)
    THEN newer_entries(new_entries, stamp_field(old_entries.v[1])) \o old_entries.v
    ELSE new_entries

get_final_string(new_entries, old_entries) ==
    join(NL, final_list(new_entries, old_entries))

\* Variant: the token is sent as it was read.
payload_sha_verbatim(sha) ==
    IF Truthy(sha) THEN Some(sha.v) ELSE None

\* The sha of the payload: current_sha.strip('"') if current_sha else None
payload_sha(sha) ==
    IF Truthy(sha) THEN Some(strip(sha.v, QUOTE)) ELSE None

\* update_github_file: the payload of the PUT.
put_payload(entries_to_file, sha) ==
    [issued |-> TRUE,
     message |-> IF Truthy(sha) THEN "Update" ELSE "Create",
     content |-> b64encode(HEADING \o entries_to_file),
     sha |-> payload_sha(sha)]

NoPut == [issued |-> FALSE, message |-> "", content |-> b64encode(<<>>), sha |-> None]

-----------------------------------------------------------------------------
(* Initial state *)

HarnessOff ==
    /\ m_pc = "off"
    /\ m_new = <<>>
    /\ m_old = None
    /\ m_out = <<>>
    /\ m_again = <<>>
    /\ rt_pc = "off"
    /\ rt_records = <<>>
    /\ rt_text = <<>>
    /\ rt_back = None

PipelineInit ==
    /\ listing = <<>>
    /\ doc = NoDoc
    /\ pc = "idle"
    /\ runs = 0
    /\ index = 0
    /\ page = 0
    /\ relevant_filings = <<>>
    /\ new_entries_list = <<>>
    /\ existing_entries_list = None
    /\ current_sha = None
    /\ all_entries_string = <<>>
    /\ page_failures = 0
    /\ grew = FALSE
    /\ read_result = "none"
    /\ doc_at_read = NoDoc
    /\ put_log = NoPut
    /\ gets = 0
    /\ puts = 0
    /\ requests = <<>>
    /\ fetched = <<>>

Init == PipelineInit /\ HarnessOff

-----------------------------------------------------------------------------
(* The listing gains a filing *)

\* A filing is published: it goes on top of the listing, and is not older
\* than the filing below it.  (While main() reads or writes the file it does
\* not look at the listing; a filing published then is one published after.)
ListingGrows ==
    /\ pc \in {"idle", "get_8ks", "done", "crashed"}
    /\ Len(listing) < MaxFilings
    /\ \E f \in Filings :
          /\ f.id = Len(listing) + 1
          /\ listing # <<>> => f.ts >= listing[1].ts
          /\ listing' = <<f>> \o listing
    /\ grew' = (grew \/ (pc = "get_8ks" /\ page > 0))
    /\ UNCHANGED <<doc, pc, runs, index, page, relevant_filings, new_entries_list,
                   existing_entries_list, current_sha, all_entries_string,
                   page_failures, read_result, doc_at_read, put_log>>
    /\ UNCHANGED <<gets, puts, requests, fetched>>
    /\ UNCHANGED harness_vars

-----------------------------------------------------------------------------
(* main and get_8ks *)

\* main() is started; get_8ks sets index, relevant_filings and page.
StartRun ==
    /\ pc \in {"idle", "done", "crashed"}
    /\ runs < MaxRuns
    /\ runs' = runs + 1
    /\ pc' = "get_8ks"
    /\ index' = 0
    /\ page' = 0
    /\ relevant_filings' = <<>>
    /\ new_entries_list' = <<>>
    /\ existing_entries_list' = None
    /\ current_sha' = None
    /\ all_entries_string' = <<>>
    /\ page_failures' = 0
    /\ grew' = FALSE
    /\ read_result' = "none"
    /\ doc_at_read' = NoDoc
    /\ put_log' = NoPut
    /\ gets' = 0
    /\ puts' = 0
    /\ requests' = <<>>
    /\ fetched' = <<>>
    /\ UNCHANGED <<listing, doc>>
    /\ UNCHANGED harness_vars

\* One pass of the loop of get_8ks, the page answered with status 200 and
\* every row extracted.  Without a 'Next' button the loop is left, get_8ks
\* returns and main() splits the text into lines.
PageLoaded ==
    /\ pc = "get_8ks"
    /\ page < MaxRequests
    /\ LET pg == ServedPage(listing, index, FALSE)
           filings == append_filings(relevant_filings, pairs_with_item(pg.rows))
       IN  /\ filings.ok
           /\ page' = page + 1
           /\ relevant_filings' = filings.v
           /\ IF ~pg.next
              THEN /\ pc' = "read"
                   /\ new_entries_list' = splitlines(filings.v)
                   /\ index' = index
              ELSE /\ index' = index + FILINGS_PER_PAGE
                   /\ UNCHANGED <<pc, new_entries_list>>
    /\ UNCHANGED <<listing, doc, runs, existing_entries_list, current_sha,
                   all_entries_string, page_failures, grew, read_result, doc_at_read, put_log>>
    /\ requests' = Append(requests, index)
    /\ fetched' = Append(fetched, [start |-> index, rows |-> ServedPage(listing, index, FALSE).rows])
    /\ UNCHANGED <<gets, puts>>
    /\ UNCHANGED harness_vars

\* The page is answered with status 200 and get_filing_info raises on one of
\* its rows: the exception is not one the loop catches and ends main().
PageMalformed ==
    /\ pc = "get_8ks"
    /\ page < MaxRequests
    /\ LET pg == ServedPage(listing, index, TRUE)
           filings == append_filings(relevant_filings, pairs_with_item(pg.rows))
       IN  ~filings.ok
    /\ page' = page + 1
    /\ pc' = "crashed"
    /\ UNCHANGED <<listing, doc, runs, index, relevant_filings, new_entries_list,
                   existing_entries_list, current_sha, all_entries_string,
                   page_failures, grew, read_result, doc_at_read, put_log>>
    /\ requests' = Append(requests, index)
    /\ UNCHANGED <<gets, puts, fetched>>
    /\ UNCHANGED harness_vars

\* The page is answered with another status than 200: get_8ks returns None,
\* and main() ends on None.splitlines().
PageStatusFailed ==
    /\ pc = "get_8ks"
    /\ page < MaxRequests
    /\ page' = page + 1
    /\ pc' = "crashed"
    /\ UNCHANGED <<listing, doc, runs, index, relevant_filings, new_entries_list,
                   existing_entries_list, current_sha, all_entries_string,
                   page_failures, grew, read_result, doc_at_read, put_log>>
    /\ requests' = Append(requests, index)
    /\ UNCHANGED <<gets, puts, fetched>>
    /\ UNCHANGED harness_vars

\* Variant: the handler of the timeout moves on to the next page.
PageTimedOutAndSkipped ==
    /\ pc = "get_8ks"
    /\ page < MaxRequests
    /\ page' = page + 1
    /\ page_failures' = page_failures + 1
    /\ index' = index + FILINGS_PER_PAGE
    /\ UNCHANGED <<listing, doc, pc, runs, relevant_filings, new_entries_list,
                   existing_entries_list, current_sha, all_entries_string,
                   grew, read_result, doc_at_read, put_log>>
    /\ requests' = Append(requests, index)
    /\ UNCHANGED <<gets, puts, fetched>>
    /\ UNCHANGED harness_vars

\* The request times out: the handler logs a warning and the loop goes on.
PageTimedOut ==
    /\ pc = "get_8ks"
    /\ page < MaxRequests
    /\ page' = page + 1
    /\ page_failures' = page_failures + 1
    /\ UNCHANGED <<listing, doc, pc, runs, index, relevant_filings, new_entries_list,
                   existing_entries_list, current_sha, all_entries_string,
                   grew, read_result, doc_at_read, put_log>>
    /\ requests' = Append(requests, index)
    /\ UNCHANGED <<gets, puts, fetched>>
    /\ UNCHANGED harness_vars

\* The request raises another RequestException: the same.
PageRequestRaised ==
    /\ pc = "get_8ks"
    /\ page < MaxRequests
    /\ page' = page + 1
    /\ page_failures' = page_failures + 1
    /\ UNCHANGED <<listing, doc, pc, runs, index, relevant_filings, new_entries_list,
                   existing_entries_list, current_sha, all_entries_string,
                   grew, read_result, doc_at_read, put_log>>
    /\ requests' = Append(requests, index)
    /\ UNCHANGED <<gets, puts, fetched>>
    /\ UNCHANGED harness_vars

\* main() after the GET of the file was answered with `response`: the
\* existing entries and the sha, then the final string.
AfterGet(response, result) ==
    LET got == get_exisiting_entries(response)
    IN  /\ existing_entries_list' = got[1]
        /\ current_sha' = got[2]
        /\ all_entries_string' = get_final_string(new_entries_list, got[1])
        /\ read_result' = result
        /\ doc_at_read' = doc
        /\ pc' = "put"
        /\ UNCHANGED <<listing, doc, runs, index, page, relevant_filings,
                       new_entries_list, page_failures, grew, put_log>>
        /\ gets' = gets + 1
        /\ UNCHANGED <<puts, requests, fetched>>
        /\ UNCHANGED harness_vars

\* The GET is answered by the store: 200 or 404.
FileRead ==
    /\ pc = "read"
    /\ AfterGet(GetResponse(doc), IF doc.exists THEN "ok" ELSE "not_found")

\* The GET is answered with a server error.
FileReadStatusFailed ==
    /\ pc = "read"
    /\ AfterGet(GetServerError, "status")

\* The GET raises RequestException.
FileReadRaised ==
    /\ pc = "read"
    /\ AfterGet(GetRaises, "exception")

\* The PUT is accepted (200 or 201): the file holds the content sent.
FileWritten ==
    /\ pc = "put"
    /\ LET payload == put_payload(all_entries_string, current_sha)
       IN  /\ StoreAccepts(doc, payload)
           /\ put_log' = payload
           /\ doc' = StoreAfterPut(doc, payload)
    /\ pc' = "done"
    /\ UNCHANGED <<listing, runs, index, page, relevant_filings, new_entries_list,
                   existing_entries_list, current_sha, all_entries_string,
                   page_failures, grew, read_result, doc_at_read>>
    /\ puts' = puts + 1
    /\ UNCHANGED <<gets, requests, fetched>>
    /\ UNCHANGED harness_vars

\* Variant: a refused PUT is sent again.
FileWriteRefusedAndRetried ==
    /\ pc = "put"
    /\ LET payload == put_payload(all_entries_string, current_sha)
       IN  /\ ~StoreAccepts(doc, payload)
           /\ put_log' = payload
    /\ pc' = "put"
    /\ UNCHANGED <<listing, doc, runs, index, page, relevant_filings, new_entries_list,
                   existing_entries_list, current_sha, all_entries_string,
                   page_failures, grew, read_result, doc_at_read>>
    /\ puts' = puts + 1
    /\ UNCHANGED <<gets, requests, fetched>>
    /\ UNCHANGED harness_vars

\* The PUT is refused (409 or 422): the error is logged.
FileWriteRefused ==
    /\ pc = "put"
    /\ LET payload == put_payload(all_entries_string, current_sha)
       IN  /\ ~StoreAccepts(doc, payload)
           /\ put_log' = payload
    /\ pc' = "done"
    /\ UNCHANGED <<listing, doc, runs, index, page, relevant_filings, new_entries_list,
                   existing_entries_list, current_sha, all_entries_string,
                   page_failures, grew, read_result, doc_at_read>>
    /\ puts' = puts + 1
    /\ UNCHANGED <<gets, requests, fetched>>
    /\ UNCHANGED harness_vars

\* The PUT is answered with a server error: the error is logged.
FileWriteFailed ==
    /\ pc = "put"
    /\ put_log' = put_payload(all_entries_string, current_sha)
    /\ pc' = "done"
    /\ UNCHANGED <<listing, doc, runs, index, page, relevant_filings, new_entries_list,
                   existing_entries_list, current_sha, all_entries_string,
                   page_failures, grew, read_result, doc_at_read>>
    /\ puts' = puts + 1
    /\ UNCHANGED <<gets, requests, fetched>>
    /\ UNCHANGED harness_vars

Next ==
    \/ ListingGrows
    \/ StartRun
    \/ PageLoaded
    \/ PageMalformed
    \/ PageStatusFailed
    \/ PageTimedOut
    \/ PageRequestRaised
    \/ FileRead
    \/ FileReadStatusFailed
    \/ FileReadRaised
    \/ FileWritten
    \/ FileWriteRefused
    \/ FileWriteFailed

Spec == Init /\ [][Next]_vars

-----------------------------------------------------------------------------
(* get_final_string on its own *)

\* The line of a filing with timestamp t, as get_filing_info renders it and
\* splitlines leaves it.
EntryOf(t) ==
    LET f == [id |-> t, ts |-> t, item |-> TRUE]
    IN  splitlines(get_filing_info(<<NameRow(f), DataRow(f, FALSE)>>).v)[1]

Entries == {EntryOf(t) : t \in 1..MaxT}

EntryLists == UNION {[1..n -> Entries] : n \in 0..MaxLen}

\* Any list of new entries, and None or any list of old entries.
MergeInit ==
    /\ PipelineInit
    /\ m_pc = "args"
    /\ m_new \in EntryLists
    /\ m_old \in {None} \cup {Some(old) : old \in EntryLists}
    /\ m_out = <<>>
    /\ m_again = <<>>
    /\ rt_pc = "off"
    /\ rt_records = <<>>
    /\ rt_text = <<>>
    /\ rt_back = None

\* all_entries_string = get_final_string(new_entries_list, existing_entries_list)
Merge ==
    /\ m_pc = "args"
    /\ m_out' = get_final_string(m_new, m_old)
    /\ m_pc' = "merged"
    /\ UNCHANGED <<m_new, m_old, m_again>>
    /\ UNCHANGED pipeline_vars
    /\ UNCHANGED roundtrip_vars

\* The result is read back as a list of lines and merged with the same new
\* entries again.
MergeAgain ==
    /\ m_pc = "merged"
    /\ m_again' = get_final_string(m_new, Some(splitlines(m_out)))
    /\ m_pc' = "again"
    /\ UNCHANGED <<m_new, m_old, m_out>>
    /\ UNCHANGED pipeline_vars
    /\ UNCHANGED roundtrip_vars

MergeNext == Merge \/ MergeAgain

MergeSpec == MergeInit /\ [][MergeNext]_vars

-----------------------------------------------------------------------------
(* Writing the entries and reading them back *)

\* Longest list of records rendered.
MaxRecords == 2

\* Company names: a plain one, one that holds the field separator, one that
\* holds a line break.
RecordNames ==
    {<<CompanyText>>, <<CompanyText, PIPE, CompanyText>>, <<CompanyText, NL, CompanyText>>}

\* A record: the company name and the timestamp of a filing (its link is
\* that of the filing with the number of the timestamp).
Records == [name : RecordNames, ts : 1..MaxT]

RecordLists == UNION {[1..n -> Records] : n \in 0..MaxRecords}

\* The two rows of the listing that show a record.
RowsOfRecord(r) ==
    <<[anchor |-> Some(r.name \o <<SPACE, CikFiler>>), text |-> {},
       stamp |-> None, href |-> None],
      DataRow([id |-> r.ts, ts |-> r.ts, item |-> TRUE], FALSE)>>

RECURSIVE ElementsOf(_)
ElementsOf(records) ==
    IF records = <<>> THEN <<>>
    ELSE <<RowsOfRecord(Head(records))>> \o ElementsOf(Tail(records))

RoundTripInit ==
    /\ PipelineInit
    /\ m_pc = "off"
    /\ m_new = <<>>
    /\ m_old = None
    /\ m_out = <<>>
    /\ m_again = <<>>
    /\ rt_pc = "records"
    /\ rt_records \in RecordLists
    /\ rt_text = <<>>
    /\ rt_back = None

\* The records go the way of a run that creates the file: get_8ks renders
\* the lines, main splits them, get_final_string joins them and
\* update_github_file puts the heading before them.
Render ==
    /\ rt_pc = "records"
    /\ LET text == append_filings(<<>>, ElementsOf(rt_records)).v
           payload == put_payload(get_final_string(splitlines(text), None), None)
       IN  rt_text' = b64decode(payload.content)
    /\ rt_pc' = "written"
    /\ UNCHANGED <<rt_records, rt_back>>
    /\ UNCHANGED pipeline_vars
    /\ UNCHANGED merge_vars

\* The text is read back as get_exisiting_entries reads the file.
ReadBack ==
    /\ rt_pc = "written"
    /\ rt_back' = get_exisiting_entries(
                      [raised |-> FALSE, status_code |-> 200, text |-> rt_text,
                       etag |-> Some(<<QUOTE, ShaText[1], QUOTE>>)])[1]
    /\ rt_pc' = "read"
    /\ UNCHANGED <<rt_records, rt_text>>
    /\ UNCHANGED pipeline_vars
    /\ UNCHANGED merge_vars

RoundTripNext == Render \/ ReadBack

RoundTripSpec == RoundTripInit /\ [][RoundTripNext]_vars

-----------------------------------------------------------------------------
(* Properties *)

\* The entries of the body of a stored text: the lines after the heading.
BodyOf(text) == drop(splitlines(text), count(HEADING, NL))

\* The timestamp of the filing a line was rendered from (the lines of the
\* model all have the layout of get_filing_info: the timestamp is the
\* fourth symbol).
StampNo(line) == CHOOSE k \in DOMAIN CanonStamp : line[4] = CanonStamp[k]

IsSuffix(suffix, lst) ==
    /\ Len(suffix) <= Len(lst)
    /\ SubSeq(lst, Len(lst) - Len(suffix) + 1, Len(lst)) = suffix

RunFailed ==
    \/ page_failures > 0
    \/ pc = "crashed"
    \/ read_result \in {"status", "exception"}

\* C1: a run in which a page request failed, a row failed extraction or the
\* read of the file failed issues no PUT.
C1_NoWriteAfterFailure == RunFailed => ~put_log.issued

\* C2: for a non-empty old list, the old entries are the end of the merged
\* list, in their order.
C2_OldIsSuffix ==
    (m_pc # "args" /\ Truthy(m_old)) => IsSuffix(m_old.v, splitlines(m_out))

\* C2 witness: a merge that put new entries before two or more old ones.
C2_Witness ==
    /\ m_pc = "merged"
    /\ Truthy(m_old)
    /\ Len(m_old.v) >= 2
    /\ Len(splitlines(m_out)) > Len(m_old.v)

\* The merge of the specification: new as it is when old is absent (or holds
\* no entry); else the longest prefix of new whose filings are all strictly
\* more recent than the first old one, then old.
ReferenceMerge(new, old) ==
    IF ~old.some \/ old.v = <<>> THEN new
    ELSE LET cutoff == StampNo(old.v[1])
             k == CHOOSE n \in 0..Len(new) :
                      /\ \A j \in 1..n : StampNo(new[j]) > cutoff
                      /\ n < Len(new) => StampNo(new[n + 1]) <= cutoff
         IN  SubSeq(new, 1, k) \o old.v

\* C3: get_final_string returns the lines of the reference merge.
C3_EqualsReference ==
    m_pc # "args" => m_out = join(NL, ReferenceMerge(m_new, m_old))

\* C3 witness: old = [t2], new = [t3, t2, t1] gave [new[0], old[0]].
C3_Witness ==
    /\ m_pc = "merged"
    /\ m_old = Some(<<EntryOf(2)>>)
    /\ m_new = <<EntryOf(3), EntryOf(2), EntryOf(1)>>
    /\ splitlines(m_out) = <<EntryOf(3), EntryOf(2)>>

HasDuplicate(lst) == \E i, j \in 1..Len(lst) : i < j /\ lst[i] = lst[j]

\* C4: no line (name, timestamp, link) is twice in the body of the file.
C4_PublishedDeduplicated == doc.exists => ~HasDuplicate(BodyOf(doc.text))

NewestFirst(lst) == \A i, j \in 1..Len(lst) : i < j => StampNo(lst[i]) >= StampNo(lst[j])

\* C5: the body of the file is in non-increasing timestamp order.
C5_PublishedNewestFirst == doc.exists => NewestFirst(BodyOf(doc.text))

\* C5 witness: an update put newer entries before the stored ones.
C5_Witness ==
    /\ pc = "done"
    /\ put_log.issued
    /\ put_log.message = "Update"
    /\ doc.rev = 2
    /\ Truthy(existing_entries_list)
    /\ Len(BodyOf(doc.text)) > Len(existing_entries_list.v)

\* C6: once a page request of a run has timed out or raised, the run issues
\* no further page request.
C6_NoRequestAfterFailure ==
    [][(page_failures > 0 /\ runs' = runs) => page' = page]_vars

\* C7: when get_8ks has returned its text over a listing of N pages, it has
\* issued exactly N page requests.
C7_ExactlyNRequests ==
    (pc \in {"read", "put"} /\ ~grew) => page = PagesOf(listing)

\* C8: a GET that failed otherwise than by not-found does not give the
\* (None, None) of not-found.
C8_ReadFailureNotAbsent ==
    read_result \in {"status", "exception"}
        => ~(existing_entries_list = None /\ current_sha = None)

C10_Idempotent == m_pc = "again" => m_again = m_out

\* C10 witness: the merge was repeated on a result that holds new and old
\* entries.
C10_Witness ==
    /\ m_pc = "again"
    /\ Truthy(m_old)
    /\ Len(m_new) >= 2
    /\ Len(splitlines(m_out)) > Len(m_old.v)
    /\ Len(splitlines(m_out)) < Len(m_new) + Len(m_old.v)

\* The adjacent pairs (i, i + 1) of the rows of a page whose later row holds
\* the marker and the item.
QualifyingAt(rows) ==
    {i \in 1..(Len(rows) - 1) :
        CurrentReport \in rows[i + 1].text /\ ITEM \in rows[i + 1].text}

\* The line of a pair of well-formed rows: the company name without its
\* annotation, the timestamp of the cell, the link.
ExpectedLine(prev, cur) ==
    <<PIPE>> \o SubSeq(prev.anchor.v, 1, Len(prev.anchor.v) - 2)
    \o <<PIPE, CanonStamp[CHOOSE k \in DOMAIN RawStamp : cur.stamp.v = <<RawStamp[k]>>],
         PIPE, LinkOpen>>
    \o cur.href.v \o <<LinkClose, PIPE>>

RECURSIVE LinesFrom(_, _)
LinesFrom(rows, i) ==
    IF i >= Len(rows) THEN <<>>
    ELSE (IF i \in QualifyingAt(rows) THEN <<ExpectedLine(rows[i], rows[i + 1])>> ELSE <<>>)
         \o LinesFrom(rows, i + 1)

\* The lines of the qualifying pairs of the pages fetched so far, page after
\* page.
RECURSIVE LinesOfPages(_)
LinesOfPages(pages) ==
    IF pages = <<>> THEN <<>>
    ELSE LinesFrom(Head(pages).rows, 1) \o LinesOfPages(Tail(pages))

FetchedLines == LinesOfPages(fetched)

\* The line of a filing of the listing, and the lines of the filings of a
\* listing that carry the item, in the order of the listing.
FilingLine(f) ==
    <<PIPE, CompanyText, PIPE, CanonStamp[f.ts], PIPE, LinkOpen, HrefText[f.id],
      LinkClose, PIPE>>

RECURSIVE ListingLines(_)
ListingLines(lst) ==
    IF lst = <<>> THEN <<>>
    ELSE (IF Head(lst).item THEN <<FilingLine(Head(lst))>> ELSE <<>>)
         \o ListingLines(Tail(lst))

\* C11: when the file does not exist and every page request of the run over
\* a listing succeeded, the run issues one PUT, without sha, whose content is
\* the heading and one line per qualifying pair of the listing, in order.
C11_CreatePath ==
    (read_result = "not_found" /\ page_failures = 0 /\ ~grew) =>
        /\ pc = "put" => all_entries_string = join(NL, ListingLines(listing))
        /\ pc = "done" =>
              /\ puts = 1
              /\ ~put_log.sha.some
              /\ b64decode(put_log.content) = HEADING \o join(NL, FetchedLines)

\* C11 witness: the file did not exist, one page with two qualifying rows was
\* fetched and the PUT was sent.
C11_Witness ==
    /\ pc = "done"
    /\ read_result = "not_found"
    /\ page_failures = 0
    /\ ~grew
    /\ Len(fetched) = 1
    /\ Len(FetchedLines) = 2
    /\ doc.exists

\* C12 as stated: at most one GET and one PUT in a run, the GET before the
\* first page request, the PUT last.
C12_ReadFirst ==
    /\ gets <= 1
    /\ puts <= 1
    /\ page > 0 => gets = 1
    /\ puts = 1 => pc = "done"

\* C12 amended: at most one GET and one PUT in a run; the GET is made after
\* get_8ks has returned, so after the last page request, and the PUT is the
\* last operation.
C12_ReadAfterPages ==
    /\ gets <= 1
    /\ puts <= 1
    /\ pc = "get_8ks" => gets = 0
    /\ gets = 1 => (page >= 1 /\ pc \in {"put", "done"})
    /\ puts = 1 => (gets = 1 /\ pc = "done")
    /\ pc = "done" => puts = 1

\* C12 witness: a run ended on a PUT that did not change an existing file.
C12_Witness ==
    /\ pc = "done"
    /\ puts = 1
    /\ gets = 1
    /\ doc_at_read.exists
    /\ doc = doc_at_read

\* C14: the start offset of every page request of a run is greater than the
\* start offset of the request before it.
C14_IncreasingOffsets ==
    \A i \in 1..(Len(requests) - 1) : requests[i] < requests[i + 1]

\* C15: the text of get_8ks holds one line per qualifying pair of each
\* fetched page, in document order and page after page, and so does the list
\* it gives to main.
C15_OneRecordPerPair ==
    /\ splitlines(relevant_filings) = FetchedLines
    /\ pc \in {"read", "put", "done"} => new_entries_list = FetchedLines

\* C15 witness: get_8ks returned after two pages that hold three qualifying
\* pairs and a row without the item.
C15_Witness ==
    /\ pc = "read"
    /\ Len(fetched) = 2
    /\ Len(new_entries_list) = 3
    /\ \E i \in 1..Len(listing) : ~listing[i].item

\* C16: after a run without failure whose PUT was accepted, every qualifying
\* filing of the pages it fetched is in the file.
C16_NoFilingLost ==
    (pc = "done" /\ ~RunFailed /\ doc.rev > doc_at_read.rev) =>
        \A i \in 1..Len(FetchedLines) :
            \E j \in 1..Len(BodyOf(doc.text)) : BodyOf(doc.text)[j] = FetchedLines[i]

\* C17: the offset is a multiple of the page size; within a run it changes
\* only by one page size, when a page was fetched with status 200, processed
\* and has a 'Next' button; a request that times out or raises leaves the
\* offset and the text as they are; the pages processed are those of the
\* offsets 0, size, 2 * size, ... each once.
C17_CursorFrame ==
    /\ [](/\ index >= 0
          /\ index % FILINGS_PER_PAGE = 0
          /\ \A i \in 1..Len(fetched) : fetched[i].start = (i - 1) * FILINGS_PER_PAGE)
    /\ [][runs' = runs =>
            /\ index' # index =>
                  /\ index' = index + FILINGS_PER_PAGE
                  /\ page_failures' = page_failures
                  /\ ServedPage(listing, index, FALSE).next
                  /\ Len(fetched') = Len(fetched) + 1
                  /\ fetched'[Len(fetched')].start = index
                  /\ splitlines(relevant_filings') = LinesOfPages(fetched')
            /\ page_failures' > page_failures =>
                  /\ index' = index
                  /\ relevant_filings' = relevant_filings]_vars

\* C17 witness: a run with a failed request has processed two pages.
C17_Witness ==
    /\ pc = "read"
    /\ page_failures > 0
    /\ Len(fetched) = 2
    /\ index = FILINGS_PER_PAGE
    /\ Len(new_entries_list) >= 2

\* The entries read back are the records: as many, and the fields between
\* the separators of each line are the name, the timestamp and the link of
\* the record.
ReadBackIsRecords ==
    /\ Len(rt_back.v) = Len(rt_records)
    /\ \A i \in 1..Len(rt_records) :
          LET fields == split(rt_back.v[i], PIPE)
              r == rt_records[i]
          IN  /\ Len(fields) = 5
              /\ fields[2] = r.name
              /\ stamp_field(rt_back.v[i]) = <<CanonStamp[r.ts]>>
              /\ fields[4] = <<LinkOpen, HrefText[r.ts], LinkClose>>

CleanName(name) == ~HasSym(name, PIPE) /\ ~HasSym(name, NL)

\* C13 as stated: every list of records is read back field for field.
C13_RoundTrip == rt_pc = "read" => ReadBackIsRecords

\* C13 amended: every list of records whose names hold no '|' and no line
\* break is read back field for field.
C13_RoundTripCleanNames ==
    (rt_pc = "read" /\ \A i \in 1..Len(rt_records) : CleanName(rt_records[i].name))
        => ReadBackIsRecords

\* C13 witness: two records with different timestamps were written and read
\* back.
C13_Witness ==
    /\ rt_pc = "read"
    /\ Len(rt_records) = 2
    /\ \A i \in 1..2 : CleanName(rt_records[i].name)
    /\ rt_records[1].ts > rt_records[2].ts
    /\ Len(rt_back.v) = 2

====
